---- MODULE Spec2Model ----
(***************************************************************************)
(* DataAnalyzer of src/LLM.py: loading a table from a path, cleaning it,   *)
(* and the four read-only analyses, together with the two branches of      *)
(* main() that construct an analyzer.                                      *)
(*                                                                         *)
(* A table is [columns, dtypes, rows]: the column labels in order, the     *)
(* pandas dtype class of each column ("object", "number", "datetime") and  *)
(* the rows in source order, each a sequence of cells.  A column label is  *)
(* a sequence of one-character strings, so that lower() and replace() act  *)
(* on characters.  A cell is [k, n, s]: k its kind ("na" for NaN/NaT,      *)
(* "num", "str", "ts"), n its number (a timestamp is the day offset from   *)
(* 2022-01-01), s its text.                                                *)
(***************************************************************************)
EXTENDS Integers, Sequences, FiniteSets, TLC

VARIABLES
    pc,      \* where the caller is: "start", "main_280" (main() after line 279),
             \* "ready" (holds an analyzer), "answered" (a query has returned
             \* or raised), "failed" (the constructor raised)
    src,     \* the file the path or upload names
    data,    \* the analyzer's table, self.data
    parsed,  \* whether read_csv or read_excel has been called
    err,     \* the exception of the last call, "none" without one
    query,   \* the last query called and its arguments
    result   \* what that query returned

vars == <<pc, src, data, parsed, err, query, result>>

\* Largest number of rows of an enumerated source table.
MaxRows == 2

----------------------------------------------------------------------------
(* Cells and small helpers                                                 *)

NA == [k |-> "na", n |-> 0, s |-> ""]
Num(x) == [k |-> "num", n |-> x, s |-> ""]
Str(t) == [k |-> "str", n |-> 0, s |-> t]
Ts(d) == [k |-> "ts", n |-> d, s |-> ""]

Range(f) == {f[i] : i \in DOMAIN f}

NoTable == [columns |-> <<>>, dtypes |-> <<>>, rows |-> <<>>, none |-> TRUE]

Table(c, d, r) == [columns |-> c, dtypes |-> d, rows |-> r, none |-> FALSE]

\* s[lo] + ... + s[hi], by halves.
RECURSIVE SumRange(_, _, _)
SumRange(s, lo, hi) ==
    IF lo > hi THEN 0
    ELSE IF lo = hi THEN s[lo]
    ELSE SumRange(s, lo, (lo + hi) \div 2) + SumRange(s, ((lo + hi) \div 2) + 1, hi)

SumSeq(s) == SumRange(s, 1, Len(s))

\* Positions of the columns of table t labelled name.
Positions(t, name) == {i \in DOMAIN t.columns : t.columns[i] = name}

ColumnCells(t, i) == [r \in DOMAIN t.rows |-> t.rows[r][i]]

\* select_dtypes(include=['number']).columns, as column positions.
NumericCols(t) == {i \in DOMAIN t.dtypes : t.dtypes[i] = "number"}

----------------------------------------------------------------------------
(* Column labels                                                           *)

UpperToLower ==
    [c \in {"A", "B", "C", "D", "E", "F", "G", "H", "I", "J", "K", "L", "M",
            "N", "O", "P", "Q", "R", "S", "T", "U", "V", "W", "X", "Y", "Z"} |->
        CASE c = "A" -> "a" [] c = "B" -> "b" [] c = "C" -> "c" [] c = "D" -> "d"
          [] c = "E" -> "e" [] c = "F" -> "f" [] c = "G" -> "g" [] c = "H" -> "h"
          [] c = "I" -> "i" [] c = "J" -> "j" [] c = "K" -> "k" [] c = "L" -> "l"
          [] c = "M" -> "m" [] c = "N" -> "n" [] c = "O" -> "o" [] c = "P" -> "p"
          [] c = "Q" -> "q" [] c = "R" -> "r" [] c = "S" -> "s" [] c = "T" -> "t"
          [] c = "U" -> "u" [] c = "V" -> "v" [] c = "W" -> "w" [] c = "X" -> "x"
          [] c = "Y" -> "y" [] c = "Z" -> "z"]

\* str.lower() on one character.
LowerChar(c) == IF c \in DOMAIN UpperToLower THEN UpperToLower[c] ELSE c

\* col.lower().replace(' ', '_')
StandardizeName(col) ==
    [i \in DOMAIN col |-> IF LowerChar(col[i]) = " " THEN "_" ELSE LowerChar(col[i])]

NameDate == <<"d", "a", "t", "e">>
NameSeg == <<"s", "e", "g">>
NameVal == <<"v", "a", "l">>
NameWhen == <<"w", "h", "e", "n">>
NameNoSuch == <<"n", "o", "n", "e">>

----------------------------------------------------------------------------
(* Source files                                                            *)

\* The cell texts pandas reads as dates, with the day each one denotes.
DateTexts == {"2022-01-01", "2022-01-02", "2022-02-01", "2022-12-31", "2023-03-15", "2024-01-01"}

DayOfText(t) ==
    CASE t = "2022-01-01" -> 0
      [] t = "2022-01-02" -> 1
      [] t = "2022-02-01" -> 31
      [] t = "2022-12-31" -> 364
      [] t = "2023-03-15" -> 438
      [] t = "2024-01-01" -> 730

\* Every cell text of the model in ascending (code point) order.
TextOrder ==
    <<"2022-01-01", "2022-01-02", "2022-02-01", "2022-12-31", "2023-03-15", "2024-01-01",
      "A", "B", "Clothing", "Electronics", "North", "soon">>

TextRank(t) == CHOOSE i \in DOMAIN TextOrder : TextOrder[i] = t

File(e, h, r, m) == [ext |-> e, header |-> h, rows |-> r, malformed |-> m]

Exts == {".csv", ".xls", ".xlsx", ".txt"}

HdrPlain == <<NameDate, NameSeg, NameVal>>
HdrMixed == <<(<<"D", "a", "t", "e">>), <<"S", "e", "g">>, <<"V", "a", "l">> >>
HdrSpaced == <<NameWhen, NameSeg, <<"N", "e", "t", " ", "v", "a", "l">> >>
HdrCaseClash == <<(<<"T", "a", "g">>), <<"t", "a", "g">>, NameVal>>
HdrSpaceClash == <<(<<"t", " ", "g">>), <<"t", "_", "g">>, NameVal>>
HdrDateTwice == <<(<<"D", "a", "t", "e">>), NameDate, NameVal>>

\* Header rows of the enumerated sources.  The labels of one header are
\* pairwise different, as the parsers rename repeated labels.
Headers == {HdrPlain, HdrMixed, HdrSpaced, HdrCaseClash, HdrSpaceClash, HdrDateTwice}

TimeCells == {Str("2022-12-31"), Str("2023-03-15"), Str("2024-01-01"), NA}
SegCells == {Str("A"), Str("B"), NA}
ValCells == {Num(1), Num(2), NA}

\* Rows that vary in the first and third column, and in the second and third.
TimeRows == {<<t, Str("A"), v>> : t \in TimeCells, v \in ValCells}
SegRows == {<<Str("2022-01-01"), s, v>> : s \in SegCells, v \in ValCells}

RowSeqs(R) == UNION {[1..n -> R] : n \in 0..MaxRows}

ExampleRows ==
    << <<Str("2022-01-01"), Str("A"), Num(10)>>,
       <<Str("2022-01-02"), Str("B"), Num(20)>>,
       <<Str("2022-02-01"), Str("A"), Num(5)>> >>

BadDateRows == << <<Str("2022-01-01"), Str("A"), NA>>, <<Str("soon"), NA, Num(2)>> >>

FixedRows == {ExampleRows, BadDateRows, <<>>}

\* The files a path can name.
Sources ==
    {File(".csv", HdrPlain, r, FALSE) : r \in RowSeqs(TimeRows) \cup RowSeqs(SegRows)}
    \cup {File(e, h, r, m) : e \in Exts, h \in Headers, r \in FixedRows, m \in BOOLEAN}
    \cup {File(e, <<>>, <<>>, FALSE) : e \in Exts}

----------------------------------------------------------------------------
(* load_data                                                               *)

Ok(t) == [ok |-> TRUE, err |-> "none", table |-> t]
Raise(e) == [ok |-> FALSE, err |-> e, table |-> NoTable]

\* The dtype class the parser infers for a column: a column holding only
\* numbers and blanks (at least one row) is numeric, anything else object.
InferDtype(cells) ==
    IF Len(cells) > 0 /\ \A i \in DOMAIN cells : cells[i].k \in {"num", "na"}
    THEN "number" ELSE "object"

ParsedTable(f) ==
    LET raw == Table(f.header, [i \in DOMAIN f.header |-> "object"], f.rows)
    IN Table(f.header, [i \in DOMAIN f.header |-> InferDtype(ColumnCells(raw, i))], f.rows)

\* pd.read_csv: a file without any column raises EmptyDataError.
ReadCsv(f) ==
    IF f.malformed \/ f.header = <<>> THEN Raise("ParseError") ELSE Ok(ParsedTable(f))

\* pd.read_excel: an empty sheet yields an empty DataFrame.
ReadExcel(f) ==
    IF f.malformed THEN Raise("ParseError") ELSE Ok(ParsedTable(f))

IsCsvPath(f) == f.ext = ".csv"
IsExcelPath(f) == f.ext \in {".xls", ".xlsx"}

\* The argument of DataAnalyzer(...): a path string naming file f, or the
\* file object of st.file_uploader, which has no endswith.
PathTo(f) == [isstr |-> TRUE, ext |-> f.ext, header |-> f.header, rows |-> f.rows,
              malformed |-> f.malformed]
Uploaded(f) == [PathTo(f) EXCEPT !.isstr = FALSE]

\* load_data(path): the table or the error raised, and whether a parser was
\* called.
LoadAsCsvAlways(f) == [r |-> ReadCsv(f), parsed |-> TRUE]

load_data(f) ==
    IF ~f.isstr THEN [r |-> Raise("AttributeError"), parsed |-> FALSE]
    ELSE IF IsCsvPath(f) THEN [r |-> ReadCsv(f), parsed |-> TRUE]
    ELSE IF IsExcelPath(f) THEN [r |-> ReadExcel(f), parsed |-> TRUE]
    ELSE [r |-> Raise("UnsupportedFormat"), parsed |-> FALSE]

----------------------------------------------------------------------------
(* clean_data                                                              *)

\* self.data.columns = [col.lower().replace(' ', '_') for col in ...]
RenameColumns(t) ==
    [t EXCEPT !.columns = [i \in DOMAIN t.columns |-> StandardizeName(t.columns[i])]]

\* pd.to_datetime on one cell; a number is nanoseconds since 1970-01-01.
CanParseDate(c) == c.k \in {"na", "num", "ts"} \/ (c.k = "str" /\ c.s \in DateTexts)

ToDatetimeCell(c) ==
    CASE c.k = "na" -> NA
      [] c.k = "ts" -> c
      [] c.k = "num" -> Ts(0 - 18993)
      [] c.k = "str" -> Ts(DayOfText(c.s))

\* if 'date' in columns: data['date'] = pd.to_datetime(data['date']).
\* With two columns labelled date, data['date'] is a frame and to_datetime raises.
ConvertDate(t) ==
    LET P == Positions(t, NameDate)
    IN IF P = {} THEN Ok(t)
       ELSE IF Cardinality(P) > 1 THEN Raise("DateParseError")
       ELSE LET i == CHOOSE j \in P : TRUE
            IN IF \E r \in DOMAIN t.rows : ~CanParseDate(t.rows[r][i])
               THEN Raise("DateParseError")
               ELSE Ok([t EXCEPT
                        !.dtypes[i] = "datetime",
                        !.rows = [r \in DOMAIN t.rows |->
                                    [t.rows[r] EXCEPT ![i] = ToDatetimeCell(t.rows[r][i])]]])

\* data[numeric_cols] = data[numeric_cols].fillna(0)
FillNoColumn(t) == t

FillNumericNA(t) ==
    [t EXCEPT !.rows =
        [r \in DOMAIN t.rows |->
            [i \in DOMAIN t.rows[r] |->
                IF i \in NumericCols(t) /\ t.rows[r][i].k = "na"
                THEN Num(0) ELSE t.rows[r][i]]]]

clean_data(t) ==
    LET d == ConvertDate(RenameColumns(t))
    IN IF d.ok THEN Ok(FillNumericNA(d.table)) ELSE d

\* DataAnalyzer.__init__(path): the analyzer's table, or the error raised.
NewDataAnalyzer(f) ==
    LET l == load_data(f)
    IN IF l.r.ok THEN [r |-> clean_data(l.r.table), parsed |-> l.parsed] ELSE l

----------------------------------------------------------------------------
(* Calendar of pd.Grouper(freq=...): day 0 is Saturday 2022-01-01          *)

IsLeap(y) == (y % 4 = 0 /\ y % 100 # 0) \/ y % 400 = 0

DaysInMonth(y, m) ==
    CASE m = 2 -> IF IsLeap(y) THEN 29 ELSE 28
      [] m \in {4, 6, 9, 11} -> 30
      [] OTHER -> 31

\* Day offset of the first day of month k, month 0 being January 2022.
RECURSIVE FirstDayOfMonth(_)
FirstDayOfMonth(k) ==
    IF k = 0 THEN 0
    ELSE FirstDayOfMonth(k - 1)
            + DaysInMonth(2022 + ((k - 1) \div 12), ((k - 1) % 12) + 1)

\* The calendar of January 2022 to December 2025, tabulated.
MonthStarts == [k \in 0..48 |-> FirstDayOfMonth(k)]

MonthStart(k) == MonthStarts[k]

MonthIndex(d) == CHOOSE k \in 0..47 : MonthStart(k) <= d /\ d < MonthStart(k + 1)

Periods == {"D", "W", "M", "Q", "Y"}

\* The bin of day d: days, weeks ending on Sunday, calendar months,
\* quarters ending in December, calendar years.
BucketIndex(period, d) ==
    CASE period = "D" -> d
      [] period = "W" -> (d + 5) \div 7
      [] period = "M" -> MonthIndex(d)
      [] period = "Q" -> MonthIndex(d) \div 3
      [] period = "Y" -> MonthIndex(d) \div 12

\* The label of a bin: the day itself, or the last day of the bin.
BucketLabel(period, b) ==
    CASE period = "D" -> b
      [] period = "W" -> (7 * b) + 1
      [] period = "M" -> MonthStart(b + 1) - 1
      [] period = "Q" -> MonthStart((3 * b) + 3) - 1
      [] period = "Y" -> MonthStart((12 * b) + 12) - 1

----------------------------------------------------------------------------
(* Aggregates                                                              *)

NaN == [nan |-> TRUE, num |-> 0, den |-> 1]

\* The quotient num / den.
Ratio(num, den) == [nan |-> FALSE, num |-> num, den |-> den]

\* The numbers of the cells of a column at the rows in R (in row order),
\* blanks skipped.
Values(t, i, R) ==
    LET F[j \in 0..Len(t.rows)] ==
            IF j = 0 THEN <<>>
            ELSE IF j \in R /\ t.rows[j][i].k = "num"
                 THEN Append(F[j - 1], t.rows[j][i].n) ELSE F[j - 1]
    IN F[Len(t.rows)]

Mean(xs) == IF Len(xs) = 0 THEN NaN ELSE Ratio(SumSeq(xs), Len(xs))

\* n * sum(x*y) - sum(x) * sum(y): n*(n-1) times the sample covariance.
CovNum(xs, ys) ==
    (Len(xs) * SumSeq([j \in DOMAIN xs |-> xs[j] * ys[j]])) - (SumSeq(xs) * SumSeq(ys))

\* The sample variance, of which std is the square root.
Variance(xs) ==
    IF Len(xs) < 2 THEN NaN ELSE Ratio(CovNum(xs, xs), Len(xs) * (Len(xs) - 1))

Min(S) == CHOOSE x \in S : \A y \in S : x <= y
Max(S) == CHOOSE x \in S : \A y \in S : y <= x

Result(kind, rows) == [ok |-> TRUE, err |-> "none", kind |-> kind, rows |-> rows]
Fail(e) == [ok |-> FALSE, err |-> e, kind |-> "error", rows |-> <<>>]
NoResult == [ok |-> TRUE, err |-> "none", kind |-> "none", rows |-> <<>>]

\* The set in increasing order.
RECURSIVE SortedSeq(_)
SortedSeq(S) == IF S = {} THEN <<>> ELSE <<Min(S)>> \o SortedSeq(S \ {Min(S)})

----------------------------------------------------------------------------
(* get_summary_stats and correlation_analysis                              *)

\* data[numeric_cols].describe().transpose(): one row per numeric column, in
\* column order (the quartiles are left out of the row).  describe() refuses
\* a frame without columns.
get_summary_stats(t) ==
    IF NumericCols(t) = {} THEN {Fail("ValueError")}
    ELSE LET cols == SortedSeq(NumericCols(t))
             all == DOMAIN t.rows
         IN {Result("summary",
                [j \in DOMAIN cols |->
                    LET xs == Values(t, cols[j], all)
                    IN [column |-> t.columns[cols[j]],
                        count |-> Len(xs),
                        mean |-> Mean(xs),
                        variance |-> Variance(xs),
                        min |-> IF Len(xs) = 0 THEN NaN ELSE Ratio(Min(Range(xs)), 1),
                        max |-> IF Len(xs) = 0 THEN NaN ELSE Ratio(Max(Range(xs)), 1)]])}

\* Pearson r of two columns as its moments [cov, varx, vary], r being
\* cov / sqrt(varx * vary); NaN when a variance is 0 or there are under 2 rows.
Pearson(xs, ys) ==
    IF Len(xs) < 2 \/ CovNum(xs, xs) = 0 \/ CovNum(ys, ys) = 0 THEN [nan |-> TRUE]
    ELSE [nan |-> FALSE, cov |-> CovNum(xs, ys), varx |-> CovNum(xs, xs), vary |-> CovNum(ys, ys)]

\* data[numeric_cols].corr()
correlation_analysis(t) ==
    LET cols == SortedSeq(NumericCols(t))
        all == DOMAIN t.rows
    IN {Result("corr",
            [a \in DOMAIN cols |->
                [b \in DOMAIN cols |->
                    Pearson(Values(t, cols[a], all), Values(t, cols[b], all))]])}

----------------------------------------------------------------------------
(* time_period_analysis                                                    *)

\* The rows whose cell in column i is a timestamp (NaT rows are left out by
\* the grouper).
TimedRows(t, i) == {r \in DOMAIN t.rows : t.rows[r][i].k = "ts"}

\* Running totals: the rows of the bin and of every earlier bin.
RowsUpToBucket(t, i, period, b) ==
    {r \in TimedRows(t, i) : BucketIndex(period, t.rows[r][i].n) <= b}

RowsInBucket(t, i, period, b) ==
    {r \in TimedRows(t, i) : BucketIndex(period, t.rows[r][i].n) = b}

\* Only the bins that hold a row, as a plain groupby on the bin would give.
ObservedBins(t, i, period) ==
    SortedSeq({BucketIndex(period, t.rows[r][i].n) : r \in TimedRows(t, i)})

\* The bins of pd.Grouper(key, freq): every bin from the one of the earliest
\* timestamp to the one of the latest, in order.
GrouperBins(t, i, period) ==
    LET B == {BucketIndex(period, t.rows[r][i].n) : r \in TimedRows(t, i)}
    IN IF B = {} THEN <<>> ELSE [j \in 1..((Max(B) - Min(B)) + 1) |-> (Min(B) + j) - 1]

\* .agg(['sum', 'mean', 'count']) of column v over one bin.
PeriodRow(t, i, v, period, b) ==
    LET xs == Values(t, v, RowsInBucket(t, i, period, b))
    IN [key |-> BucketLabel(period, b), sum |-> SumSeq(xs), mean |-> Mean(xs),
        count |-> Len(xs)]

\* The outcomes of time_period_analysis(time_col, value_col, period).  The
\* explicit test covers time_col only; the grouper needs a datetime column;
\* a missing value_col is pandas' KeyError; mean needs a numeric column.
\* pandas versions differ on a frame without rows and on an all-NaT column.
time_period_analysis(t, time_col, value_col, period) ==
    LET P == Positions(t, time_col)
        V == Positions(t, value_col)
        i == CHOOSE j \in P : TRUE
        v == CHOOSE j \in V : TRUE
        bins == GrouperBins(t, i, period)
    IN IF P = {} THEN {Fail("ColumnNotFound")}
       ELSE IF t.dtypes[i] # "datetime" THEN {Fail("TypeError")}
       ELSE IF V = {} THEN {Fail("KeyError")}
       ELSE IF t.dtypes[v] # "number"
            THEN IF t.rows = <<>> THEN {Fail("TypeError"), Result("period", <<>>)}
                 ELSE {Fail("TypeError")}
       ELSE IF t.rows # <<>> /\ TimedRows(t, i) = {}
            THEN {Fail("ValueError"), Result("period", <<>>)}
       ELSE {Result("period", [j \in DOMAIN bins |-> PeriodRow(t, i, v, period, bins[j])])}

----------------------------------------------------------------------------
(* segment_analysis                                                        *)

\* The sort key of a cell among the cells of one column.
CellRank(c) == IF c.k = "str" THEN TextRank(c.s) ELSE c.n

\* groupby(segment_col): the distinct values of the column in ascending
\* order; rows with a missing value belong to no group (dropna=True).
GroupKeys(t, s) ==
    LET K == {t.rows[r][s] : r \in {q \in DOMAIN t.rows : t.rows[q][s].k # "na"}}
        ranks == SortedSeq({CellRank(c) : c \in K})
    IN [j \in DOMAIN ranks |-> CHOOSE c \in K : CellRank(c) = ranks[j]]

\* .agg(['sum', 'mean', 'count', 'std']) of column v over one group.
SegmentRow(t, s, v, key) ==
    LET xs == Values(t, v, {r \in DOMAIN t.rows : t.rows[r][s] = key})
    IN [key |-> key, sum |-> SumSeq(xs), mean |-> Mean(xs), count |-> Len(xs),
        variance |-> Variance(xs)]

Perms(n) == {f \in [1..n -> 1..n] : \A a, b \in 1..n : a # b => f[a] # f[b]}

\* The arrangements of rows in descending order of sum.
DescendingOrders(rows) ==
    {[j \in DOMAIN rows |-> rows[f[j]]] : f \in
        {g \in Perms(Len(rows)) :
            \A a, b \in DOMAIN rows : a < b => rows[g[a]].sum >= rows[g[b]].sum}}

\* The arrangement that keeps rows of equal sum in their given order.
StableDescending(rows) ==
    CHOOSE out \in DescendingOrders(rows) :
        \E f \in Perms(Len(rows)) :
            /\ out = [j \in DOMAIN rows |-> rows[f[j]]]
            /\ \A a, b \in DOMAIN rows :
                 (a < b /\ rows[f[a]].sum = rows[f[b]].sum) => f[a] < f[b]

\* sort_values('sum', ascending=False) with the default kind 'quicksort':
\* numpy sorts up to 16 elements by insertion, and pandas reverses before and
\* after, so rows of equal sum stay in group order; beyond that size the
\* order of equal sums is not fixed.
SortValuesDesc(rows) ==
    IF Len(rows) <= 16 THEN {StableDescending(rows)} ELSE DescendingOrders(rows)

\* The outcomes of segment_analysis(segment_col, value_col): no explicit
\* test, a missing column is pandas' KeyError.
segment_analysis(t, segment_col, value_col) ==
    LET S == Positions(t, segment_col)
        V == Positions(t, value_col)
        s == CHOOSE j \in S : TRUE
        v == CHOOSE j \in V : TRUE
        keys == GroupKeys(t, s)
        grouped == [j \in DOMAIN keys |-> SegmentRow(t, s, v, keys[j])]
    IN IF S = {} \/ V = {} THEN {Fail("KeyError")}
       ELSE IF t.dtypes[v] # "number"
            THEN IF t.rows = <<>> THEN {Fail("TypeError"), Result("segment", <<>>)}
                 ELSE {Fail("TypeError")}
       ELSE {Result("segment", r) : r \in SortValuesDesc(grouped)}

----------------------------------------------------------------------------
(* load_sample_data and main                                               *)

NameProduct == <<"p", "r", "o", "d", "u", "c", "t">>
NameRegion == <<"r", "e", "g", "i", "o", "n">>
NameSales == <<"s", "a", "l", "e", "s", "_", "a", "m", "o", "u", "n", "t">>
NameUnits == <<"u", "n", "i", "t", "s", "_", "s", "o", "l", "d">>
NameCustomer == <<"c", "u", "s", "t", "o", "m", "e", "r", "_", "i", "d">>

SampleColumns == <<NameDate, NameProduct, NameRegion, NameSales, NameUnits, NameCustomer>>
SampleDtypes == <<"datetime", "object", "object", "number", "number", "number">>

SampleRow(d, p, amount, units, id) ==
    <<Ts(d), Str(p), Str("North"), Num(amount), Num(units), Num(id)>>

\* Tables load_sample_data() can return (its random draws, cut to two rows).
SampleTables ==
    {Table(SampleColumns, SampleDtypes,
        <<SampleRow(73, "Electronics", 100, 1, 1000), SampleRow(0, "Clothing", 70, 2, 1001)>>),
     Table(SampleColumns, SampleDtypes,
        <<SampleRow(0, "Clothing", 70, 2, 1001), SampleRow(0, "Electronics", 70, 1, 1000)>>)}

\* The files sales_data.csv can be when main() runs without an upload.
SalesDataFiles == {f \in Sources : f.ext = ".csv" /\ f.rows \in FixedRows}

----------------------------------------------------------------------------
(* State machine                                                           *)

NoQuery == [op |-> "none", args |-> <<>>]

Init ==
    /\ pc = "start"
    /\ src \in Sources
    /\ data = NoTable
    /\ parsed = FALSE
    /\ err = "none"
    /\ query = NoQuery
    /\ result = NoResult

\* analyzer = DataAnalyzer(path) run to its end; then control is at next.
Constructed(path, next) ==
    LET a == NewDataAnalyzer(path)
    IN /\ parsed' = a.parsed
       /\ err' = a.r.err
       /\ data' = a.r.table
       /\ pc' = IF a.r.ok THEN next ELSE "failed"
       /\ UNCHANGED <<src, query, result>>

\* A caller constructs DataAnalyzer(path) for a path of its own.
Construct ==
    /\ pc = "start"
    /\ Constructed(PathTo(src), "ready")

\* main() with an uploaded file: analyzer = DataAnalyzer(uploaded_file).
MainUpload ==
    /\ pc = "start"
    /\ src.ext \in {".csv", ".xlsx"}
    /\ Constructed(Uploaded(src), "ready")

\* main() without an upload: analyzer = DataAnalyzer("sales_data.csv").
MainSampleConstruct ==
    /\ pc = "start"
    /\ src \in SalesDataFiles
    /\ Constructed(PathTo(src), "main_280")

\* main(): analyzer.data = sample_data.
MainSampleReplace ==
    /\ pc = "main_280"
    /\ data' \in SampleTables
    /\ pc' = "ready"
    /\ UNCHANGED <<src, parsed, err, query, result>>

\* The caller holds the analyzer and calls a query, which returns or raises;
\* out is the set of its possible outcomes.
Answer(op, args, out) ==
    /\ pc = "ready"
    /\ query' = [op |-> op, args |-> args]
    /\ result' \in out
    /\ err' = result'.err
    /\ pc' = "answered"
    /\ UNCHANGED <<src, data, parsed>>

\* The caller is done with the outcome of its last call and goes on.
Continue ==
    /\ pc = "answered"
    /\ pc' = "ready"
    /\ query' = NoQuery
    /\ result' = NoResult
    /\ err' = "none"
    /\ UNCHANGED <<src, data, parsed>>

\* Column arguments of the queries: a label borne by one column of the
\* table, or a label of no column.
QueryCols(t) == {c \in Range(t.columns) : Cardinality(Positions(t, c)) = 1} \cup {NameNoSuch}

DatetimeNames(t) == {c \in QueryCols(t) : \E i \in Positions(t, c) : t.dtypes[i] = "datetime"}
NumericNames(t) == {c \in QueryCols(t) : \E i \in Positions(t, c) : t.dtypes[i] = "number"}

\* Calls of time_period_analysis: any two column arguments with the default
\* period 'M', and every period for a datetime column with a numeric or a
\* missing value column.
TimeCalls(t) ==
    {<<tc, vc, "M">> : tc \in QueryCols(t), vc \in QueryCols(t)}
    \cup {<<tc, vc, p>> : tc \in DatetimeNames(t), vc \in NumericNames(t) \cup {NameNoSuch},
                          p \in Periods}

GetSummaryStats == Answer("get_summary_stats", <<>>, get_summary_stats(data))

TimePeriodAnalysis(time_col, value_col, period) ==
    Answer("time_period_analysis", <<time_col, value_col, period>>,
           time_period_analysis(data, time_col, value_col, period))

\* segment_analysis sorting the analyzer's own rows (inplace=True) on its way.
SegmentAnalysisInPlace(segment_col, value_col) ==
    /\ pc = "ready"
    /\ query' = [op |-> "segment_analysis", args |-> <<segment_col, value_col>>]
    /\ result' \in segment_analysis(data, segment_col, value_col)
    /\ err' = result'.err
    /\ pc' = "answered"
    /\ data' = [data EXCEPT !.rows = [r \in DOMAIN data.rows |->
                                        data.rows[(Len(data.rows) + 1) - r]]]
    /\ UNCHANGED <<src, parsed>>

SegmentAnalysis(segment_col, value_col) ==
    Answer("segment_analysis", <<segment_col, value_col>>,
           segment_analysis(data, segment_col, value_col))

CorrelationAnalysis == Answer("correlation_analysis", <<>>, correlation_analysis(data))

Next ==
    \/ Construct
    \/ MainUpload
    \/ MainSampleConstruct
    \/ MainSampleReplace
    \/ GetSummaryStats
    \/ \E c \in TimeCalls(data) : TimePeriodAnalysis(c[1], c[2], c[3])
    \/ \E sc \in QueryCols(data), vc \in QueryCols(data) : SegmentAnalysis(sc, vc)
    \/ CorrelationAnalysis
    \/ Continue

Spec == Init /\ [][Next]_vars

----------------------------------------------------------------------------
(* Properties                                                              *)

\* A caller holds an analyzer: its constructor has returned.
HasAnalyzer == pc \in {"main_280", "ready", "answered"}

\* A query can be issued, or has just been answered.
Queryable == pc \in {"ready", "answered"}

\* The analyzer's table is the one its constructor built.
FromConstructor == HasAnalyzer /\ data \notin SampleTables

IsStandardName(c) == \A i \in DOMAIN c : c[i] \notin DOMAIN UpperToLower /\ c[i] # " "

\* The position of the column a query argument names.
ArgColumn(name) == CHOOSE i \in Positions(data, name) : TRUE

\* C1: after construction every column label is lower-case, holds no space,
\* and no two columns share a label.
C1_ColumnNamesStandardAndUnique ==
    HasAnalyzer =>
        /\ \A i \in DOMAIN data.columns : IsStandardName(data.columns[i])
        /\ \A i, j \in DOMAIN data.columns : i # j => data.columns[i] # data.columns[j]

C3_UnsupportedFormatFailsFast ==
    (pc # "start" /\ src.ext \notin {".csv", ".xls", ".xlsx"}) =>
        /\ pc = "failed"
        /\ err = "UnsupportedFormat"
        /\ ~parsed
        /\ data = NoTable

C3_Witness == pc = "failed" /\ src.ext = ".txt" /\ err = "UnsupportedFormat" /\ ~parsed

\* A column argument of the answered query names no column of the table.
QueryNamesMissingColumn ==
    /\ pc = "answered"
    /\ query.op \in {"time_period_analysis", "segment_analysis"}
    /\ \E a \in 1..2 : Positions(data, query.args[a]) = {}

\* C4: a time_period_analysis or segment_analysis call naming a missing
\* column (in either column argument) raises the same column-not-found error.
C4_MissingColumnRaisesColumnNotFound ==
    QueryNamesMissingColumn => err = "ColumnNotFound"

\* An answered segment_analysis that returned a frame.
SegmentAnswered ==
    pc = "answered" /\ query.op = "segment_analysis" /\ result.kind = "segment"

\* The first row of the table whose segment cell is key.
FirstAppearance(key) ==
    Min({r \in DOMAIN data.rows : data.rows[r][ArgColumn(query.args[1])] = key})

\* C5: the rows of segment_analysis are in descending order of sum, and rows
\* of equal sum are in the order in which their segments first appear in the
\* table.
C5_SegmentsSortedTiesByFirstAppearance ==
    SegmentAnswered =>
        \A a, b \in DOMAIN result.rows : a < b =>
            /\ result.rows[a].sum >= result.rows[b].sum
            /\ result.rows[a].sum = result.rows[b].sum =>
                 FirstAppearance(result.rows[a].key) < FirstAppearance(result.rows[b].key)

\* C6: the counts of the groups of segment_analysis add up to the number of
\* rows of the table (rows with a missing segment value included).
C6_SegmentCountsCoverAllRows ==
    SegmentAnswered =>
        SumSeq([j \in DOMAIN result.rows |-> result.rows[j].count]) = Len(data.rows)

\* An answered time_period_analysis that returned a frame.
PeriodAnswered ==
    pc = "answered" /\ query.op = "time_period_analysis" /\ result.kind = "period"

\* The timestamps (days) of the time column of the answered query.
ObservedDays ==
    {data.rows[r][ArgColumn(query.args[1])].n :
        r \in TimedRows(data, ArgColumn(query.args[1]))}

\* The last day of the calendar bucket of the answered query's granularity
\* that holds day d.
BucketEnd(d) == BucketLabel(query.args[3], BucketIndex(query.args[3], d))

\* The rows of the table whose time value lies in the bucket ending at key.
RowsOfKey(key) ==
    {r \in TimedRows(data, ArgColumn(query.args[1])) :
        BucketEnd(data.rows[r][ArgColumn(query.args[1])].n) = key}

\* C7: for each of the five granularities the buckets of time_period_analysis
\* run from the bucket of the earliest time value to the bucket of the latest
\* one, in chronological order, each calendar bucket once and none missing;
\* a bucket without a row has sum 0 and count 0.
C7_PeriodBucketsContiguous ==
    PeriodAnswered =>
        LET out == result.rows
        IN /\ (ObservedDays = {}) = (out = <<>>)
           /\ out # <<>> =>
                /\ out[1].key = BucketEnd(Min(ObservedDays))
                /\ out[Len(out)].key = BucketEnd(Max(ObservedDays))
           /\ \A j \in 1..(Len(out) - 1) :
                /\ out[j].key < out[j + 1].key
                /\ out[j + 1].key = BucketEnd(out[j].key + 1)
           /\ \A j \in DOMAIN out :
                RowsOfKey(out[j].key) = {} => out[j].sum = 0 /\ out[j].count = 0

\* A monthly, quarterly or yearly answer with an empty bucket between two
\* buckets that hold rows.
C7_Witness ==
    /\ PeriodAnswered
    /\ query.args[3] \in {"M", "Q", "Y"}
    /\ \E j \in DOMAIN result.rows :
          /\ 1 < j /\ j < Len(result.rows)
          /\ result.rows[j].count = 0
          /\ result.rows[j].sum = 0
          /\ RowsOfKey(result.rows[j].key) = {}

\* The answer to the monthly query on the three example rows.
ExampleAnswer ==
    << [key |-> 30, sum |-> 30, mean |-> Ratio(30, 2), count |-> 2],
       [key |-> 58, sum |-> 5, mean |-> Ratio(5, 1), count |-> 1] >>

ExampleQueried ==
    /\ PeriodAnswered
    /\ FromConstructor
    /\ src.rows = ExampleRows
    /\ query.args = <<NameDate, NameVal, "M">>

\* C10: every row with a time value is counted in exactly one bucket (the
\* counts add up to the number of such rows), each bucket reports the sum,
\* mean and count of the value column over exactly the rows whose date falls
\* in it, and the monthly query on the example rows gives January (30, 2, 15)
\* then February (5, 1, 5).
C10_PeriodAggregatesRowsOnce ==
    PeriodAnswered =>
        LET out == result.rows
            v == ArgColumn(query.args[2])
        IN /\ SumSeq([j \in DOMAIN out |-> out[j].count])
                = Cardinality(TimedRows(data, ArgColumn(query.args[1])))
           /\ \A j \in DOMAIN out :
                /\ out[j].count = Cardinality(RowsOfKey(out[j].key))
                /\ out[j].sum = SumSeq(Values(data, v, RowsOfKey(out[j].key)))
                /\ out[j].count > 0 =>
                     /\ ~out[j].mean.nan
                     /\ out[j].mean.num = out[j].sum
                     /\ out[j].mean.den = out[j].count
           /\ ExampleQueried =>
                /\ out = ExampleAnswer
                /\ out[1].mean.num = 15 * out[1].mean.den
                /\ out[2].mean.num = 5 * out[2].mean.den

C10_Witness == ExampleQueried /\ Len(result.rows) = 2

\* C8: once the constructor has returned nothing replaces or modifies the
\* analyzer's table.
C8_TableNeverChangesAfterConstruction ==
    [][HasAnalyzer => data' = data]_vars

\* C8 as amended: no query changes the table, and the table changes after
\* construction only in main() at line 280, before any query is issued.
C8_OnlyMainReplacesTable ==
    [][/\ Queryable => data' = data
       /\ (HasAnalyzer /\ data' # data) =>
             (pc = "main_280" /\ query = NoQuery /\ data' \in SampleTables)]_vars

\* A query answered on the table that main() put in place of the loaded one.
C8_Witness == pc = "answered" /\ result.ok /\ data \in SampleTables

\* The source has a column that clean_data takes for the date column and a
\* value in it that is no date.
HasBadDate(f) ==
    \E i \in DOMAIN f.header :
        /\ StandardizeName(f.header[i]) = NameDate
        /\ \E r \in DOMAIN f.rows : ~CanParseDate(f.rows[r][i])

\* The three steps of clean_data have been applied to table t.
Normalized(t) ==
    /\ \A i \in DOMAIN t.columns : StandardizeName(t.columns[i]) = t.columns[i]
    /\ \A i \in Positions(t, NameDate) : t.dtypes[i] = "datetime"
    /\ \A i \in NumericCols(t) : \A r \in DOMAIN t.rows : t.rows[r][i].k # "na"

\* C9: construction fails, leaving no analyzer, when parsing fails, when the
\* date column holds an unparseable value or when the table has no column;
\* a table held by a caller has been through all of clean_data.
C9_ConstructionAllOrNothing ==
    /\ (pc # "start" /\ (src.malformed \/ HasBadDate(src) \/ src.header = <<>>)) =>
          (pc = "failed" /\ data = NoTable)
    /\ HasAnalyzer => Normalized(data)

====
